---- MODULE Spec2Model ----
(***************************************************************************)
(* Model of analysis_8_monte_carlo_kelly (src/rookie_analysis.py): the     *)
(* bootstrap Monte Carlo simulation of compounding equity curves under a   *)
(* stake ("Kelly") fraction, its sample curves, its stake-fraction sweep   *)
(* and its JSON export; and of main(), the runner of the 8 analyses.       *)
(*                                                                         *)
(* Real numbers are exact rationals <<n, d>> with d # 0; the float         *)
(* not-a-number produced by 0/0 is the value NaN.  A numpy Generator is a  *)
(* finite-state machine: its state is a position in the output cycle of    *)
(* its seed, and the cycle itself is arbitrary (chosen in Init).           *)
(***************************************************************************)
EXTENDS Integers, Sequences, FiniteSets, TLC

VARIABLES
    pc,               \* position in analysis_8_monte_carlo_kelly
    run,              \* number of the current invocation of the analysis
    prev,             \* what the previous invocation produced
    df,               \* rows <<price, won>> returned by the query
    stream,           \* seed -> output cycle of the generator for that seed
    stake,            \* stake fraction of the main batch and the curves
    kelly_fractions,  \* swept stake fractions
    returns,          \* df["return_pct"].values
    n_trades_per_sim,
    rng, rng2, rng3, rng4,
    raised,           \* the exception the invocation ended with, "" if none
    fraction,         \* the stake fraction of the last trial
    sampled,          \* the last bootstrap draw
    picked,           \* the indices into returns of the last draw
    equity, running_max, drawdown,
    max_drawdowns, final_returns,
    summary,          \* percentiles and profitable / losing split of the batch
    plotted,          \* the curves drawn on the bottom-left chart
    kf_i,             \* index of the swept fraction being simulated
    sim_finals,
    sweep_kf,         \* the fraction each sweep row was simulated with
    median_returns, p5_returns, p95_returns_list,
    equity_curves,    \* the curves exported to JSON
    chart_json,       \* the payload handed to _save_chart_json
    main_pc,          \* position in main()
    data_exists,      \* KALSHI_TRADES.exists()
    analysis_i,       \* i of the loop over the analyses
    called,           \* the analyses invoked so far, by number
    results,          \* how each invoked analysis ended
    logged,           \* the analyses reported as failed
    all_done,         \* the closing summary has been printed
    script_pc,        \* position in the module body of advanced_analysis.py
    namespace,        \* the names bound in that module so far
    call_i,           \* the next call of the current __main__ block
    script_called,    \* the functions called so far, by name
    script_error,     \* the exception that ended the script, "" if none
    completed,        \* number of "ALL ADVANCED ANALYSES COMPLETE" banners
    trader_stats,     \* rows <<trade_count, volume_usdc>> of whale_tracker
    whale             \* the values whale_tracker computed, <<>> before

simVars == <<pc, run, prev, df, stream, stake, kelly_fractions, returns,
          n_trades_per_sim, rng, rng2, rng3, rng4, raised, fraction, sampled,
          picked, equity,
          running_max, drawdown, max_drawdowns, final_returns, summary,
          plotted, kf_i, sim_finals, sweep_kf, median_returns, p5_returns,
          p95_returns_list, equity_curves, chart_json>>

mainVars == <<main_pc, data_exists, analysis_i, called, results, logged,
              all_done>>

advVars == <<script_pc, namespace, call_i, script_called, script_error,
             completed, trader_stats, whale>>

vars == <<simVars, mainVars, advVars>>

----------------------------------------------------------------------------
(* Bounds of the model: the program's sizes scaled down.                   *)

MinTrades == 1        \* the minimum row count (100 in the source)
MaxTrades == 3        \* longest query result explored
TradeCap == 2         \* ceiling on draws per trajectory (200 in the source)
n_simulations == 3     \* 5000 in the source
NCurves == 2          \* sample curves plotted and exported (50 in the source)
NSweepSims == 2       \* trials per swept fraction (1000 in the source)
NFractions == 2       \* points of the sweep (30 in the source)
Period == 3           \* length of a generator's output cycle
MaxTraders == 5       \* addresses in the result of whale_tracker's query
TopCount == 2         \* the largest addresses of the pie (100 in the source)
DecileDiv == 2        \* n // DecileDiv addresses are the top 10% (10)
CentileDiv == 3       \* n // CentileDiv addresses are the top 1% (100)
LorenzPoints == 2     \* points kept of the Lorenz curve (200 in the source)

(* Program constants.                                                      *)
SEED == 42
KellyNum == 5         \* the main stake fraction 0.05 = KellyNum / KellyDen
KellyDen == 100
SweepLoNum == 1       \* np.linspace(0.01, 0.30, n): 0.01 = 1/100
SweepHiNum == 30      \*                             0.30 = 30/100
SweepDen == 100
SweepPoints == 30     \* the number of points of the program's sweep
PriceLo == 5          \* yes_price BETWEEN 5 AND 15
PriceHi == 15
PayoutCents == 100
NAnalyses == 8        \* the entries of the list analyses of main()
NBins == 6            \* the entries of bins_labels

\* The float 0/0; <<1, 0>> and <<-1, 0>> are the float infinities.
NaN == <<0, 0>>

----------------------------------------------------------------------------
(* Exact rational arithmetic.                                              *)

Abs(x) == IF x < 0 THEN -x ELSE x

\* the element of a singleton set; The({e(v) : v \in {d}}) is e with v
\* bound to the value of d, computed once
The(S) == CHOOSE x \in S : TRUE

RECURSIVE GCD(_, _)
GCD(a, b) == IF b = 0 THEN a ELSE The({GCD(b, r) : r \in {a % b}})

\* n / d in lowest terms with a positive denominator (d # 0)
Norm(n, d) ==
    LET g == GCD(Abs(n), Abs(d))
        s == IF d < 0 THEN -1 ELSE 1
    IN  <<s * (n \div g), s * (d \div g)>>

\* a < b for rationals with positive denominators
RLess(a, b) ==
    IF a[2] = b[2] THEN a[1] < b[1] ELSE a[1] * b[2] < b[1] * a[2]

REq(a, b) == ~RLess(a, b) /\ ~RLess(b, a)
RLeq(a, b) == ~RLess(b, a)

RECURSIVE Pow(_, _)
Pow(b, k) == IF k = 0 THEN 1 ELSE b * Pow(b, k - 1)

\* max(200, len(returns))
MaxOf(a, b) == IF a < b THEN b ELSE a

Min(a, b) == IF a < b THEN a ELSE b

Range(s) == {s[i] : i \in 1..Len(s)}

IsNaN(x) == x[2] = 0 /\ x[1] = 0

\* float division num / den of two numerators over one common denominator
FloatDiv(num, den) ==
    IF den = 0
    THEN IF num = 0 THEN NaN ELSE IF num > 0 THEN <<1, 0>> ELSE <<-1, 0>>
    ELSE Norm(num, den)

\* x * m for an integer m > 0, without growing the numerator needlessly
RMulInt(x, m) ==
    IF x[2] = 0 THEN x
    ELSE LET g == GCD(m, x[2]) IN <<x[1] * (m \div g), x[2] \div g>>

RAdd(a, b) ==
    IF a[2] = b[2] THEN <<a[1] + b[1], a[2]>>
    ELSE <<a[1] * b[2] + b[1] * a[2], a[2] * b[2]>>

RECURSIVE RSum(_, _)
RSum(s, k) ==
    IF k = 0 THEN <<0, 1>>
    ELSE The({RAdd(t, s[k]) : t \in {RSum(s, k - 1)}})

\* arr.mean()
Mean(s) == LET t == RSum(s, Len(s)) IN Norm(t[1], t[2] * Len(s))

\* quotient and remainder of x * 10^k by long division, from <<q, r>> of x
RECURSIVE LongDiv(_, _, _, _)
LongDiv(q, r, d, k) ==
    IF k = 0 THEN <<q, r>>
    ELSE The({LongDiv(q2, r2, d, k - 1) :
                 q2 \in {q * 10 + ((r * 10) \div d)}, r2 \in {(r * 10) % d}})

\* x.round(k): to k decimals, ties to even; NaN stays NaN
RoundValue(x, k) ==
    IF x[2] = 0 THEN x
    ELSE LET qr == The({LongDiv(n \div d, n % d, d, k) :
                          n \in {x[1]}, d \in {x[2]}})
             up == \/ 2 * qr[2] > x[2]
                   \/ 2 * qr[2] = x[2] /\ qr[1] % 2 = 1
         IN  <<IF up THEN qr[1] + 1 ELSE qr[1], Pow(10, k)>>

Round(x, k) == The({RoundValue(v, k) : v \in {x}})

\* (arr * 100).round(2)
Pct2(s) == [i \in 1..Len(s) |-> Round(RMulInt(s[i], 100), 2)]

----------------------------------------------------------------------------
(* numpy array operations.                                                 *)

\* the position where x goes in the ascending sequence s
RECURSIVE Insert(_, _)
Insert(s, x) ==
    IF s = <<>> THEN <<x>>
    ELSE IF RLess(x, Head(s)) THEN <<x>> \o s
    ELSE <<Head(s)>> \o Insert(Tail(s), x)

RECURSIVE Sort(_)
Sort(s) ==
    IF s = <<>> THEN <<>>
    ELSE The({Insert(t, Head(s)) : t \in {Sort(Tail(s))}})

\* np.percentile(a, q), linear interpolation between the closest ranks
Percentile(a, q) ==
    IF \E i \in 1..Len(a) : IsNaN(a[i]) THEN NaN
    ELSE LET s == Sort(a)
             h == (Len(a) - 1) * q
             lo == (h \div 100) + 1
             fr == Norm(h % 100, 100)
         IN  IF fr[1] = 0 THEN s[lo]
             ELSE LET x == s[lo]
                      y == s[lo + 1]
                  IN  IF x[2] = y[2]
                      THEN Norm(x[1] * (fr[2] - fr[1]) + y[1] * fr[1],
                                x[2] * fr[2])
                      ELSE Norm(x[1] * y[2] * (fr[2] - fr[1])
                                  + y[1] * x[2] * fr[1],
                                x[2] * y[2] * fr[2])

\* np.median(a)
Median(a) == Percentile(a, 50)

\* arr.max(): a NaN element makes the maximum NaN
ArrayMax(s) ==
    IF \E i \in 1..Len(s) : IsNaN(s[i]) THEN NaN
    ELSE CHOOSE x \in Range(s) : \A y \in Range(s) : ~RLess(x, y)

----------------------------------------------------------------------------
(* The steps of one trial.                                                 *)

\* won * (100 - price) / price for every row: a lost trade returns 0
ReturnPctNoLoss(row) == Norm(row[2] * (PayoutCents - row[1]), row[1])

\* the per-trade return of a row: (100 - price) / price if won, else -1
ReturnPct(row) ==
    IF row[2] = 1 THEN Norm(PayoutCents - row[1], row[1]) ELSE <<-1, 1>>

\* df["return_pct"].values
ReturnValues(d) == [i \in 1..Len(d) |-> ReturnPct(d[i])]

\* 1 + 2 * r * f: the stake counted twice
StepNumDoubled(r, f) == r[2] * f[2] + 2 * r[1] * f[1]

\* 1 + r + f: the stake added instead of multiplied
StepNumAdditive(r, f) == r[2] * f[2] + r[1] * f[2] + f[1] * r[2]

\* numerator and denominator of 1 + r * f
StepNum(r, f) == r[2] * f[2] + r[1] * f[1]
StepDen(r, f) == r[2] * f[2]

RECURSIVE ProdNum(_, _, _)
ProdNum(s, f, k) ==
    IF k = 0 THEN 1 ELSE ProdNum(s, f, k - 1) * StepNum(s[k], f)

RECURSIVE TailDen(_, _, _)
TailDen(s, f, k) ==
    IF k >= Len(s) THEN 1 ELSE StepDen(s[k + 1], f) * TailDen(s, f, k + 1)

\* np.cumprod(1 + sampled * f): every element over the common denominator
Cumprod(s, f) ==
    [k \in 1..Len(s) |-> <<ProdNum(s, f, k) * TailDen(s, f, k),
                           TailDen(s, f, 0)>>]

\* the running maximum started from the initial equity 1.0
MaximumAccumulateFromOne(e) ==
    [k \in 1..Len(e) |->
        CHOOSE x \in {e[j] : j \in 1..k} \cup {<<e[1][2], e[1][2]>>} :
            /\ \A j \in 1..k : ~RLess(x, e[j])
            /\ ~RLess(x, <<1, 1>>)]

\* np.minimum.accumulate(equity)
MinimumAccumulate(e) ==
    [k \in 1..Len(e) |->
        CHOOSE x \in {e[j] : j \in 1..k} :
            \A j \in 1..k : ~RLess(e[j], x)]

\* np.maximum.accumulate(equity)
MaximumAccumulate(e) ==
    [k \in 1..Len(e) |->
        CHOOSE x \in {e[j] : j \in 1..k} :
            \A j \in 1..k : ~RLess(x, e[j])]

\* (running_max - equity) / running_max, elementwise
Drawdown(rm, e) ==
    [k \in 1..Len(e) |-> FloatDiv(rm[k][1] - e[k][1], rm[k][1])]

\* equity[-1], the final equity taken for the final return
FinalReturnGross(e) == e[Len(e)]

\* equity[-1] - 1
FinalReturn(e) == <<e[Len(e)][1] - e[Len(e)][2], e[Len(e)][2]>>

\* np.linspace(1, 30, n): the sweep in percent
LinspacePercent(n) ==
    [i \in 1..n |->
        IF n = 1 THEN <<SweepLoNum, 1>>
        ELSE Norm(SweepLoNum * (n - 1) + (i - 1) * (SweepHiNum - SweepLoNum),
                  n - 1)]

\* np.linspace(0.01, 0.30, n)
Linspace(n) ==
    [i \in 1..n |->
        IF n = 1 THEN Norm(SweepLoNum, SweepDen)
        ELSE Norm(SweepLoNum * (n - 1) + (i - 1) * (SweepHiNum - SweepLoNum),
                  SweepDen * (n - 1))]

----------------------------------------------------------------------------
(* The generator.                                                          *)

\* default_rng() without its seed: another state at every invocation
UnseededRng(seed) == [seed |-> seed, pos |-> (run - 1) % Period]

\* the generator of the sample curves handed on to the later batches
SharedRng(seed) == rng2

\* default_rng() seeded from fresh entropy at every creation: each of the
\* run's generators starts somewhere else in the cycle
EntropyRng(seed) ==
    [seed |-> seed,
     pos |-> (CASE pc = "main" -> 1
                [] pc = "curves" -> 2
                [] pc = "sweep" -> 3
                [] OTHER -> 0) % Period]

\* np.random.default_rng(seed)
DefaultRng(seed) == [seed |-> seed, pos |-> 0]

\* the indices drawn by g.choice(arr, size = size, replace = True)
ChoiceIdx(g, size) ==
    [k \in 1..size |-> stream[g.seed][((g.pos + k - 1) % Period) + 1]]

\* the draw taken from the price column instead of the return column
ChoiceOfPrices(g, arr, size) ==
    [k \in 1..size |-> <<df[ChoiceIdx(g, size)[k]][1], 1>>]

\* the values g.choice(arr, size = size, replace = True) returns
Choice(g, arr, size) == [k \in 1..size |-> arr[ChoiceIdx(g, size)[k]]]

\* a generator that hands every caller the same draws
AdvanceStuck(g, size) == g

\* the generator after drawing size values
Advance(g, size) == [g EXCEPT !.pos = (g.pos + size) % Period]

----------------------------------------------------------------------------
(* Inputs.                                                                 *)

\* the price of the band explored: a win at 10 cents returns 9 stakes
Prices == (PriceLo..PriceHi) \cap {10}

\* rows <<price, won>> the query can return
Trades == {<<p, w>> : p \in Prices, w \in {0, 1}}

\* the query results of at most n rows over the rows S; the order of the
\* rows is immaterial to every draw (the generator's cycle ranges over all
\* index sequences), so only the results with the winners first are kept
Tables(S, n) ==
    {t \in UNION {[1..k -> S] : k \in 0..n} :
        \A i, j \in 1..Len(t) : i < j => t[i][2] >= t[j][2]}

\* the output cycles a generator can have when drawing among n elements
Cycles(n) == [1..Period -> 1..(IF n = 0 THEN 1 ELSE n)]

\* rows and parameters of the simulation applied outside the program's
\* literals: returns -1 and +1, stake fractions 1/2, 1 and 3/2
ParamTrades == {<<50, 1>>, <<50, 0>>}
ParamStakes == {<<1, 2>>, <<1, 1>>, <<3, 2>>}
ParamSweeps == { << <<1, 2>>, <<1, 4>> >>, << <<1, 4>>, <<1, 1>> >> }

\* a generator variable before its default_rng line has run
Unbound == [seed |-> SEED, pos |-> 0]

\* the state before the analysis has run
Fresh ==
    /\ pc = "start"
    /\ returns = <<>>
    /\ n_trades_per_sim = 0
    /\ rng = Unbound /\ rng2 = Unbound /\ rng3 = Unbound /\ rng4 = Unbound
    /\ raised = ""
    /\ fraction = <<0, 1>>
    /\ sampled = <<>> /\ picked = <<>>
    /\ equity = <<>> /\ running_max = <<>> /\ drawdown = <<>>
    /\ max_drawdowns = <<>> /\ final_returns = <<>>
    /\ summary = <<>>
    /\ plotted = <<>>
    /\ kf_i = 1
    /\ sim_finals = <<>>
    /\ sweep_kf = <<>>
    /\ median_returns = <<>> /\ p5_returns = <<>> /\ p95_returns_list = <<>>
    /\ equity_curves = <<>>
    /\ chart_json = <<>>

\* main() before it is entered
MainIdle ==
    /\ main_pc = "enter"
    /\ analysis_i = 0
    /\ called = <<>>
    /\ results = <<>>
    /\ logged = <<>>
    /\ all_done = FALSE

\* advanced_analysis.py before it is run
AdvIdle ==
    /\ script_pc = "import"
    /\ namespace = {}
    /\ call_i = 1
    /\ script_called = <<>>
    /\ script_error = ""
    /\ completed = 0
    /\ whale = <<>>

\* the program: the query's rows, the literal 0.05 and the literal linspace
Init ==
    /\ MainIdle
    /\ AdvIdle
    /\ trader_stats = <<>>
    /\ data_exists = TRUE
    /\ run = 1
    /\ prev = <<>>
    /\ df \in Tables(Trades, MaxTrades)
    /\ stream \in [{SEED} -> Cycles(Len(df))]
    /\ stake = Norm(KellyNum, KellyDen)
    /\ kelly_fractions = Linspace(NFractions)
    /\ Fresh

\* the simulation applied to other samples, stake fractions and sweeps
InitParam ==
    /\ MainIdle
    /\ AdvIdle
    /\ trader_stats = <<>>
    /\ data_exists = TRUE
    /\ run = 1
    /\ prev = <<>>
    /\ df \in Tables(ParamTrades, MaxTrades)
    /\ stream \in [{SEED} -> Cycles(Len(df))]
    /\ stake \in ParamStakes
    /\ kelly_fractions \in ParamSweeps
    /\ Fresh

\* rows whose return is 0: a win at the full payout price
ZeroTrades == {<<PayoutCents, 1>>}

\* the simulation applied to samples of zero returns only
InitZero ==
    /\ MainIdle
    /\ AdvIdle
    /\ trader_stats = <<>>
    /\ data_exists = TRUE
    /\ run = 1
    /\ prev = <<>>
    /\ df \in Tables(ZeroTrades, MaxTrades)
    /\ stream \in [{SEED} -> Cycles(Len(df))]
    /\ stake \in ParamStakes
    /\ kelly_fractions \in ParamSweeps
    /\ Fresh

\* rows <<price, won>> at every price of the band 5..15 cents
BandTrades == {<<p, w>> : p \in PriceLo..PriceHi, w \in {0, 1}}

\* the query results of at most n rows over the band, one per multiset of
\* rows: winners first, each group by ascending price
BandTables(n) ==
    {t \in UNION {[1..k -> BandTrades] : k \in 0..n} :
        \A i, j \in 1..Len(t) :
            i < j => \/ t[i][2] > t[j][2]
                     \/ t[i][2] = t[j][2] /\ t[i][1] <= t[j][1]}

\* the analysis entered with a query result over the whole price band
InitSample ==
    /\ MainIdle
    /\ AdvIdle
    /\ trader_stats = <<>>
    /\ data_exists = TRUE
    /\ run = 1
    /\ prev = <<>>
    /\ df \in BandTables(MaxTrades)
    /\ stream = [s \in {SEED} |-> [k \in 1..Period |-> 1]]
    /\ stake = Norm(KellyNum, KellyDen)
    /\ kelly_fractions = Linspace(NFractions)
    /\ Fresh

----------------------------------------------------------------------------
(* analysis_8_monte_carlo_kelly, one action per step.                      *)

\* while the last trial did not lose: a loop that stops at the first loss
RangeUntilLoss(done, n) ==
    /\ Len(done) < n
    /\ IF done = <<>> THEN TRUE ELSE ~RLess(done[Len(done)], <<0, 1>>)

\* for _ in range(n): an iteration is left when done holds fewer than n
\* results
RangeLeft(done, n) == Len(done) < n

\* what one trial computes from its draw
TrialVars(g, f) ==
    LET idx == ChoiceIdx(g, n_trades_per_sim)
        smp == Choice(g, returns, n_trades_per_sim)
        eq == Cumprod(smp, f)
    IN  /\ fraction' = f
        /\ picked' = idx
        /\ sampled' = smp
        /\ equity' = eq

\* no check of the number of trades
NeverTooFew(d) == FALSE

\* len(df) < 100
TooFewOffByOne(d) == Len(d) < MinTrades - 1

NotEnough(d) == Len(d) < MinTrades

\* if len(df) < 100: print the warning and return
Skip ==
    /\ pc = "start"
    /\ NotEnough(df)
    /\ pc' = "skipped"
    /\ UNCHANGED <<raised, fraction, run, prev, df, stream, stake,
                   kelly_fractions, returns, n_trades_per_sim, rng, rng2,
                   rng3, rng4, sampled, picked, equity, running_max, drawdown,
                   max_drawdowns, final_returns, summary, plotted, kf_i,
                   sim_finals, sweep_kf, median_returns, p5_returns,
                   p95_returns_list, equity_curves, chart_json>>
    /\ UNCHANGED mainVars
    /\ UNCHANGED advVars

\* the return sample, the trajectory length, the empty result lists, rng
Prepare ==
    /\ pc = "start"
    /\ ~NotEnough(df)
    /\ returns' = ReturnValues(df)
    /\ n_trades_per_sim' = Min(TradeCap, Len(ReturnValues(df)))
    /\ max_drawdowns' = <<>>
    /\ final_returns' = <<>>
    /\ rng' = DefaultRng(SEED)
    /\ pc' = "main"
    /\ UNCHANGED <<raised, fraction, run, prev, df, stream, stake,
                   kelly_fractions, rng2, rng3, rng4, sampled, picked, equity,
                   running_max, drawdown, summary, plotted, kf_i, sim_finals,
                   sweep_kf, median_returns, p5_returns, p95_returns_list,
                   equity_curves, chart_json>>
    /\ UNCHANGED mainVars
    /\ UNCHANGED advVars

\* one iteration of the main loop
MainTrial ==
    /\ pc = "main"
    /\ RangeLeft(max_drawdowns, n_simulations)
    /\ TrialVars(rng, stake)
    /\ rng' = Advance(rng, n_trades_per_sim)
    /\ running_max' = MaximumAccumulate(equity')
    /\ drawdown' = Drawdown(running_max', equity')
    /\ IF Len(drawdown') = 0
         THEN \* drawdown.max() of an empty array raises
              /\ raised' = "ValueError"
              /\ pc' = "failed"
              /\ UNCHANGED <<max_drawdowns, final_returns>>
         ELSE /\ max_drawdowns' = Append(max_drawdowns, ArrayMax(drawdown'))
              /\ final_returns' = Append(final_returns, FinalReturn(equity'))
              /\ UNCHANGED <<raised, pc>>
    /\ UNCHANGED <<run, prev, df, stream, stake, kelly_fractions,
                   returns, n_trades_per_sim, rng2, rng3, rng4, summary,
                   plotted, kf_i, sim_finals, sweep_kf, median_returns,
                   p5_returns, p95_returns_list, equity_curves, chart_json>>
    /\ UNCHANGED mainVars
    /\ UNCHANGED advVars

\* final_returns[final_returns > 0]: a final return of 0 left out
PositiveStrict(fr) == SelectSeq(fr, LAMBDA x : RLess(<<0, 1>>, x))

\* final_returns[final_returns >= 0] and final_returns[final_returns < 0]
Positive(fr) == SelectSeq(fr, LAMBDA x : ~RLess(x, <<0, 1>>))
Negative(fr) == SelectSeq(fr, LAMBDA x : RLess(x, <<0, 1>>))

\* the two histograms with their percentile lines and group sizes; rng2
Summarize ==
    /\ pc = "main"
    /\ ~RangeLeft(max_drawdowns, n_simulations)
    /\ summary' = << [p95 |-> RMulInt(Percentile(max_drawdowns, 95), 100),
                      p50 |-> RMulInt(Percentile(max_drawdowns, 50), 100),
                      positive |-> Positive(final_returns),
                      negative |-> Negative(final_returns)] >>
    /\ rng2' = DefaultRng(SEED)
    /\ plotted' = <<>>
    /\ pc' = "curves"
    /\ UNCHANGED <<raised, fraction, run, prev, df, stream, stake,
                   kelly_fractions, returns, n_trades_per_sim, rng, rng3,
                   rng4, sampled, picked, equity, running_max, drawdown,
                   max_drawdowns, final_returns, kf_i, sim_finals, sweep_kf,
                   median_returns, p5_returns, p95_returns_list,
                   equity_curves, chart_json>>
    /\ UNCHANGED mainVars
    /\ UNCHANGED advVars

\* one of the sample equity curves of the chart
CurveTrial ==
    /\ pc = "curves"
    /\ Len(plotted) < NCurves
    /\ TrialVars(rng2, stake)
    /\ rng2' = Advance(rng2, n_trades_per_sim)
    /\ plotted' = Append(plotted, equity')
    /\ UNCHANGED <<raised, pc, run, prev, df, stream, stake, kelly_fractions,
                   returns, n_trades_per_sim, rng, rng3, rng4, running_max,
                   drawdown, max_drawdowns, final_returns, summary, kf_i,
                   sim_finals, sweep_kf, median_returns, p5_returns,
                   p95_returns_list, equity_curves, chart_json>>
    /\ UNCHANGED mainVars
    /\ UNCHANGED advVars

\* for kf in sorted(kelly_fractions)
SweepFractionSorted(fracs, i) == Sort(fracs)[i]

\* for kf in kelly_fractions: the i-th fraction of the loop
SweepFraction(fracs, i) == fracs[i]

\* the sweep's empty result lists and rng3
StartSweep ==
    /\ pc = "curves"
    /\ Len(plotted) = NCurves
    /\ median_returns' = <<>>
    /\ p5_returns' = <<>>
    /\ p95_returns_list' = <<>>
    /\ sweep_kf' = <<>>
    /\ rng3' = DefaultRng(SEED)
    /\ kf_i' = 1
    /\ sim_finals' = <<>>
    /\ pc' = "sweep"
    /\ UNCHANGED <<raised, fraction, run, prev, df, stream, stake,
                   kelly_fractions, returns, n_trades_per_sim, rng, rng2,
                   rng4, sampled, picked, equity, running_max, drawdown,
                   max_drawdowns, final_returns, summary, plotted,
                   equity_curves, chart_json>>
    /\ UNCHANGED mainVars
    /\ UNCHANGED advVars

\* one trial of the inner loop of the sweep
SweepTrial ==
    /\ pc = "sweep"
    /\ kf_i <= Len(kelly_fractions)
    /\ RangeLeft(sim_finals, NSweepSims)
    /\ TrialVars(rng3, SweepFraction(kelly_fractions, kf_i))
    /\ rng3' = Advance(rng3, n_trades_per_sim)
    /\ sim_finals' = Append(sim_finals, FinalReturn(equity'))
    /\ UNCHANGED <<raised, pc, run, prev, df, stream, stake, kelly_fractions,
                   returns, n_trades_per_sim, rng, rng2, rng4, running_max,
                   drawdown, max_drawdowns, final_returns, summary, plotted,
                   kf_i, sweep_kf, median_returns, p5_returns,
                   p95_returns_list, equity_curves, chart_json>>
    /\ UNCHANGED mainVars
    /\ UNCHANGED advVars

\* rng3 created anew for every fraction
ReseededBatchRng(g) == DefaultRng(SEED)

\* the generator the next fraction's trials draw from: rng3 is created
\* before the loop over the fractions and not again inside it
NextBatchRng(g) == g

\* the end of one fraction's inner loop: its median, 5th and 95th percentile
SweepRow ==
    /\ pc = "sweep"
    /\ kf_i <= Len(kelly_fractions)
    /\ ~RangeLeft(sim_finals, NSweepSims)
    /\ median_returns' = Append(median_returns, Median(sim_finals))
    /\ p5_returns' = Append(p5_returns, Percentile(sim_finals, 5))
    /\ p95_returns_list' = Append(p95_returns_list, Percentile(sim_finals, 95))
    /\ sweep_kf' = Append(sweep_kf, SweepFraction(kelly_fractions, kf_i))
    /\ kf_i' = kf_i + 1
    /\ sim_finals' = <<>>
    /\ rng3' = NextBatchRng(rng3)
    /\ UNCHANGED <<raised, fraction, pc, run, prev, df, stream, stake,
                   kelly_fractions, returns, n_trades_per_sim, rng, rng2,
                   rng4, sampled, picked, equity, running_max, drawdown,
                   max_drawdowns, final_returns, summary, plotted,
                   equity_curves, chart_json>>
    /\ UNCHANGED mainVars
    /\ UNCHANGED advVars

\* the sweep is plotted, the figure saved; the export's empty list and rng4
StartExport ==
    /\ pc = "sweep"
    /\ kf_i > Len(kelly_fractions)
    /\ equity_curves' = <<>>
    /\ rng4' = DefaultRng(SEED)
    /\ pc' = "export"
    /\ UNCHANGED <<raised, fraction, run, prev, df, stream, stake,
                   kelly_fractions, returns, n_trades_per_sim, rng, rng2,
                   rng3, sampled, picked, equity, running_max, drawdown,
                   max_drawdowns, final_returns, summary, plotted, kf_i,
                   sim_finals, sweep_kf, median_returns, p5_returns,
                   p95_returns_list, chart_json>>
    /\ UNCHANGED mainVars
    /\ UNCHANGED advVars

\* equity.round(4).tolist()
Round4(e) == [k \in 1..Len(e) |-> Round(e[k], 4)]

\* one of the equity curves re-run for the JSON export
ExportTrial ==
    /\ pc = "export"
    /\ Len(equity_curves) < NCurves
    /\ TrialVars(rng4, stake)
    /\ rng4' = Advance(rng4, n_trades_per_sim)
    /\ equity_curves' = Append(equity_curves, Round4(equity'))
    /\ UNCHANGED <<raised, pc, run, prev, df, stream, stake, kelly_fractions,
                   returns, n_trades_per_sim, rng, rng2, rng3, running_max,
                   drawdown, max_drawdowns, final_returns, summary, plotted,
                   kf_i, sim_finals, sweep_kf, median_returns, p5_returns,
                   p95_returns_list, chart_json>>
    /\ UNCHANGED mainVars
    /\ UNCHANGED advVars

\* the payload without the rounding of the per-trial lists
ChartPayloadUnrounded ==
    [drawdowns |-> max_drawdowns,
     final_returns |-> final_returns,
     equity_curves |-> equity_curves,
     kelly_fractions |-> Pct2(kelly_fractions),
     kelly_median_return |-> Pct2(median_returns),
     kelly_p5_return |-> Pct2(p5_returns),
     kelly_p95_return |-> Pct2(p95_returns_list),
     stats |->
        [avg_return_pct |-> Round(RMulInt(Mean(returns), 100), 2),
         n_trades |-> Len(returns)]]

\* the payload of _save_chart_json("8_monte_carlo_kelly.json", ...)
ChartPayload ==
    [drawdowns |-> Pct2(max_drawdowns),
     final_returns |-> Pct2(final_returns),
     equity_curves |-> equity_curves,
     kelly_fractions |-> Pct2(kelly_fractions),
     kelly_median_return |-> Pct2(median_returns),
     kelly_p5_return |-> Pct2(p5_returns),
     kelly_p95_return |-> Pct2(p95_returns_list),
     stats |->
        [avg_return_pct |-> Round(RMulInt(Mean(returns), 100), 2),
         win_rate_pct |->
            Round(RMulInt(Mean([i \in 1..Len(df) |-> <<df[i][2], 1>>]), 100), 2),
         implied_prob_pct |->
            Round(Mean([i \in 1..Len(df) |-> <<df[i][1], 1>>]), 2),
         n_trades |-> Len(returns)]]

SaveJson ==
    /\ pc = "export"
    /\ Len(equity_curves) = NCurves
    /\ chart_json' = <<ChartPayload>>
    /\ pc' = "done"
    /\ UNCHANGED <<raised, fraction, run, prev, df, stream, stake,
                   kelly_fractions, returns, n_trades_per_sim, rng, rng2,
                   rng3, rng4, sampled, picked, equity, running_max, drawdown,
                   max_drawdowns, final_returns, summary, plotted, kf_i,
                   sim_finals, sweep_kf, median_returns, p5_returns,
                   p95_returns_list, equity_curves>>
    /\ UNCHANGED mainVars
    /\ UNCHANGED advVars

\* what an invocation leaves behind: how it ended and what it produced
Outcome ==
    [ended |-> pc,
     raised |-> raised,
     max_drawdowns |-> max_drawdowns,
     final_returns |-> final_returns,
     summary |-> summary,
     chart_json |-> chart_json]

\* the analysis is invoked a second time on the same data
Rerun ==
    /\ pc \in {"done", "skipped", "failed"}
    /\ run = 1
    /\ run' = run + 1
    /\ prev' = <<Outcome>>
    /\ pc' = "start"
    /\ returns' = <<>>
    /\ n_trades_per_sim' = 0
    /\ rng' = Unbound /\ rng2' = Unbound /\ rng3' = Unbound /\ rng4' = Unbound
    /\ raised' = ""
    /\ fraction' = <<0, 1>>
    /\ sampled' = <<>> /\ picked' = <<>>
    /\ equity' = <<>> /\ running_max' = <<>> /\ drawdown' = <<>>
    /\ max_drawdowns' = <<>> /\ final_returns' = <<>>
    /\ summary' = <<>>
    /\ plotted' = <<>>
    /\ kf_i' = 1
    /\ sim_finals' = <<>>
    /\ sweep_kf' = <<>>
    /\ median_returns' = <<>> /\ p5_returns' = <<>> /\ p95_returns_list' = <<>>
    /\ equity_curves' = <<>>
    /\ chart_json' = <<>>
    /\ UNCHANGED <<df, stream, stake, kelly_fractions>>
    /\ UNCHANGED mainVars
    /\ UNCHANGED advVars

Next ==
    \/ Skip
    \/ Prepare
    \/ MainTrial
    \/ Summarize
    \/ CurveTrial
    \/ StartSweep
    \/ SweepTrial
    \/ SweepRow
    \/ StartExport
    \/ ExportTrial
    \/ SaveJson
    \/ Rerun

Spec == Init /\ [][Next]_vars

\* the analysis runs to its end: every step of it terminates
SpecFair == Init /\ [][Next]_vars /\ WF_vars(Next)

SpecParam == InitParam /\ [][Next]_vars

SpecZero == InitZero /\ [][Next]_vars

\* the analysis up to its return sample: the row-count check, return_pct
NextSample ==
    \/ Skip
    \/ Prepare

SpecSample == InitSample /\ [][NextSample]_vars

----------------------------------------------------------------------------
(* main(): the data check, the loop over the analyses, the summary.        *)

\* the ways a call func() of the loop can end: it returns, or it raises an
\* exception of class Exception
Endings == {"returned", "Exception"}

\* an exception of an analysis leaves the loop
AbortOnException(n, ending) ==
    IF ending = "Exception" THEN NAnalyses + 1 ELSE n + 1

\* the loop index after analysis n has ended: the except clause prints and
\* falls through to the next iteration
AfterAnalysis(n, ending) == n + 1

\* main() entered with nothing run yet; the analysis is not inside a call
InitMain ==
    /\ MainIdle
    /\ AdvIdle
    /\ trader_stats = <<>>
    /\ data_exists \in BOOLEAN
    /\ run = 1
    /\ prev = <<>>
    /\ df = <<>>
    /\ stream = [s \in {SEED} |-> [k \in 1..Period |-> 1]]
    /\ stake = Norm(KellyNum, KellyDen)
    /\ kelly_fractions = Linspace(NFractions)
    /\ Fresh

\* the error is printed but the return is missing: the loop is entered
MissingDataFallsThrough ==
    /\ main_pc = "enter"
    /\ ~data_exists
    /\ analysis_i' = 1
    /\ main_pc' = "loop"
    /\ UNCHANGED <<data_exists, called, results, logged, all_done>>
    /\ UNCHANGED simVars
    /\ UNCHANGED advVars

\* if not KALSHI_TRADES.exists(): print the error and return
MissingData ==
    /\ main_pc = "enter"
    /\ ~data_exists
    /\ main_pc' = "returned"
    /\ UNCHANGED <<data_exists, analysis_i, called, results, logged, all_done>>
    /\ UNCHANGED simVars
    /\ UNCHANGED advVars

\* the list of analyses is built and the loop entered
EnterLoop ==
    /\ main_pc = "enter"
    /\ data_exists
    /\ analysis_i' = 1
    /\ main_pc' = "loop"
    /\ UNCHANGED <<data_exists, called, results, logged, all_done>>
    /\ UNCHANGED simVars
    /\ UNCHANGED advVars

\* one iteration: try func(), except Exception print the failure
Invoke ==
    /\ main_pc = "loop"
    /\ analysis_i <= NAnalyses
    /\ \E ending \in Endings :
          /\ called' = Append(called, analysis_i)
          /\ results' = Append(results, ending)
          /\ logged' = IF ending = "Exception"
                         THEN Append(logged, analysis_i)
                         ELSE logged
          /\ analysis_i' = AfterAnalysis(analysis_i, ending)
    /\ UNCHANGED <<main_pc, data_exists, all_done>>
    /\ UNCHANGED simVars
    /\ UNCHANGED advVars

\* the loop is over: "ALL DONE!" and the legend of the charts
AllDone ==
    /\ main_pc = "loop"
    /\ analysis_i > NAnalyses
    /\ all_done' = TRUE
    /\ main_pc' = "done"
    /\ UNCHANGED <<data_exists, analysis_i, called, results, logged>>
    /\ UNCHANGED simVars
    /\ UNCHANGED advVars

NextMain ==
    \/ MissingData
    \/ EnterLoop
    \/ Invoke
    \/ AllDone

\* main() runs to its end: every call of an analysis returns or raises
SpecMain == InitMain /\ [][NextMain]_vars /\ WF_vars(NextMain)

----------------------------------------------------------------------------
(* analyses/whale_tracker.py: concentration of the volume by address.      *)

Max(a, b) == IF a < b THEN b ELSE a

\* a - b of two floats; NaN if either is not finite
RSub(a, b) ==
    IF a[2] = 0 \/ b[2] = 0 THEN NaN
    ELSE Norm(a[1] * b[2] - b[1] * a[2], a[2] * b[2])

\* the sum of the first k elements of a sequence of integers
RECURSIVE SumInts(_, _)
SumInts(s, k) ==
    IF k = 0 THEN 0 ELSE The({t + s[k] : t \in {SumInts(s, k - 1)}})

\* trader_stats["trade_count"] and trader_stats["volume_usdc"]
TradeCount(ts) == [j \in 1..Len(ts) |-> ts[j][1]]
Volume(ts) == [j \in 1..Len(ts) |-> ts[j][2]]

\* trader_stats.head(k)["volume_usdc"].sum() / total_volume * 100
HeadShare(ts, k) ==
    FloatDiv(100 * SumInts(Volume(ts), Min(k, Len(ts))),
             SumInts(Volume(ts), Len(ts)))

\* the share of the top 1% of the addresses, at least one address
Top1Pct(ts) == HeadShare(ts, Max(1, Len(ts) \div CentileDiv))

\* the share of the top 10% of the addresses, at least one address
Top10Pct(ts) == HeadShare(ts, Max(1, Len(ts) \div DecileDiv))

\* the share of the TopCount largest addresses
Top100Volume(ts) == HeadShare(ts, TopCount)

\* the three slices handed to ax4.pie
Slices(ts) ==
    <<Top100Volume(ts),
      RSub(Top10Pct(ts), Top100Volume(ts)),
      RSub(<<100, 1>>, Top10Pct(ts))>>

\* np.sort(volume_usdc): trader_stats is ordered by volume, descending
SortedVol(ts) == [j \in 1..Len(ts) |-> Volume(ts)[Len(ts) + 1 - j]]

\* cum_vol / cum_vol[-1] * 100, at the 0-based index i
CumVolPct(ts, i) ==
    FloatDiv(100 * SumInts(SortedVol(ts), i + 1),
             SumInts(SortedVol(ts), Len(ts)))

\* np.arange(1, n + 1) / n * 100, at the 0-based index i
TraderPct(n, i) == Norm(100 * (i + 1), n)

\* list(range(0, n, step))
RangeStep(n, step) == [k \in 1..((n + step - 1) \div step) |-> (k - 1) * step]

\* the indices of the exported Lorenz curve: every step-th, and the last
LorenzIdx(n) ==
    LET idx == RangeStep(n, Max(1, n \div LorenzPoints))
    IN  IF idx[Len(idx)] # n - 1 THEN Append(idx, n - 1) ELSE idx

\* the Gini coefficient of the ascending volumes
Gini(ts) ==
    LET sv == SortedVol(ts)
        n == Len(ts)
        weighted == SumInts([j \in 1..n |-> j * sv[j]], n)
        total == SumInts(sv, n)
    IN  FloatDiv(2 * weighted - (n + 1) * total, n * total)

\* the activity bins, the third one closed too early
InBinOpenEdge(b, c) ==
    CASE b = 1 -> c = 1
      [] b = 2 -> c >= 2 /\ c <= 10
      [] b = 3 -> c >= 11 /\ c < 100
      [] b = 4 -> c >= 101 /\ c <= 1000
      [] b = 5 -> c >= 1001 /\ c <= 10000
      [] b = 6 -> c > 10000

\* trade count c lies in the b-th of the bins "1", "2-10", "11-100",
\* "101-1K", "1K-10K", "10K+"
InBin(b, c) ==
    CASE b = 1 -> c = 1
      [] b = 2 -> c >= 2 /\ c <= 10
      [] b = 3 -> c >= 11 /\ c <= 100
      [] b = 4 -> c >= 101 /\ c <= 1000
      [] b = 5 -> c >= 1001 /\ c <= 10000
      [] b = 6 -> c > 10000

\* int(np.sum(mask)) for each of the six masks
BinsCounts(ts) ==
    [b \in 1..NBins |->
        Cardinality({j \in 1..Len(ts) : InBin(b, TradeCount(ts)[j])})]

\* what whale_tracker computes from the rows of its query, and whether
\* the chart and its JSON were saved; the columns of the top 20 addresses
\* carry the addresses themselves and are left out
WhaleTracker(ts, ending) ==
    LET n == Len(ts)
        idx == LorenzIdx(n)
    IN  [total_traders |-> n,
         total_trades |-> SumInts(TradeCount(ts), n),
         total_volume |-> SumInts(Volume(ts), n),
         top1_pct |-> Top1Pct(ts),
         top10_pct |-> Top10Pct(ts),
         top100_volume |-> Top100Volume(ts),
         idx |-> idx,
         lorenz_x |-> [k \in 1..Len(idx) |-> Round(TraderPct(n, idx[k]), 2)],
         lorenz_y |-> [k \in 1..Len(idx) |-> Round(CumVolPct(ts, idx[k]), 2)],
         gini |-> Gini(ts),
         bins_counts |-> BinsCounts(ts),
         slices |-> Slices(ts),
         saved |-> ending = "returned"]

\* the ways whale_tracker can end on the rows ts: cum_vol[-1] raises
\* IndexError on an empty table, and ax4.pie raises ValueError on a
\* negative wedge size; any other call may raise as well
WhaleEndings(ts) ==
    IF Len(ts) = 0 THEN {"Exception"}
    ELSE IF \E k \in 1..3 : RLess(Slices(ts)[k], <<0, 1>>)
                              /\ ~IsNaN(Slices(ts)[k])
         THEN {"Exception"}
         ELSE Endings

----------------------------------------------------------------------------
(* advanced_analysis.py run as a script.                                   *)

\* the calls of the first and of the second __main__ block
FirstBlock ==
    <<"platform_comparison", "whale_tracker",
      "market_categories", "spread_liquidity">>
SecondBlock ==
    <<"analysis_9_platform_comparison", "analysis_10_whale_tracker",
      "analysis_11_market_categories", "analysis_12_spread_liquidity">>

\* the names the import statements bind
Imported == Range(FirstBlock)

\* the names the def statements of the module bind
Defined ==
    {"analysis_10_whale_tracker", "analysis_11_market_categories",
     "analysis_12_spread_liquidity"}

\* the volumes and the trade counts of the addresses of the tables checked
Volumes == {0, 1, 3}
CountValues == <<1, 2, 10, 11, 100, 101, 1000, 1001, 10000, 10001>>

\* the result of the query: at most MaxTraders rows, the volumes descending,
\* the trade counts consecutive values of CountValues
TraderTables ==
    UNION {{[j \in 1..n |->
                <<CountValues[((b + j - 2) % Len(CountValues)) + 1], v[j]>>] :
              b \in 1..Len(CountValues),
              v \in {w \in [1..n -> Volumes] :
                        \A j \in 1..(n - 1) : w[j] >= w[j + 1]}} :
           n \in 0..MaxTraders}

\* the script is started; the simulator and main() are not running
InitAdvanced ==
    /\ MainIdle
    /\ AdvIdle
    /\ trader_stats \in TraderTables
    /\ data_exists = TRUE
    /\ run = 1
    /\ prev = <<>>
    /\ df = <<>>
    /\ stream = [s \in {SEED} |-> [k \in 1..Period |-> 1]]
    /\ stake = Norm(KellyNum, KellyDen)
    /\ kelly_fractions = Linspace(NFractions)
    /\ Fresh

\* the four from ... import statements
Import ==
    /\ script_pc = "import"
    /\ namespace' = namespace \cup Imported
    /\ script_pc' = "main1"
    /\ UNCHANGED <<call_i, script_called, script_error, completed,
                   trader_stats, whale>>
    /\ UNCHANGED simVars
    /\ UNCHANGED mainVars

\* r = name(): the name is looked up, the function runs, and an exception
\* it raises is not caught
Call ==
    /\ script_pc \in {"main1", "main2"}
    /\ call_i <= Len(FirstBlock)
    /\ LET name == IF script_pc = "main1" THEN FirstBlock[call_i]
                                          ELSE SecondBlock[call_i]
       IN  IF name \notin namespace
           THEN /\ script_error' = "NameError"
                /\ script_pc' = "crashed"
                /\ UNCHANGED <<call_i, script_called, whale>>
           ELSE \E ending \in IF name = "whale_tracker"
                              THEN WhaleEndings(trader_stats) ELSE Endings :
                    /\ script_called' = Append(script_called, name)
                    /\ whale' = IF name = "whale_tracker"
                                   /\ Len(trader_stats) > 0
                                THEN <<WhaleTracker(trader_stats, ending)>>
                                ELSE whale
                    /\ IF ending = "returned"
                       THEN /\ call_i' = call_i + 1
                            /\ UNCHANGED <<script_pc, script_error>>
                       ELSE /\ script_error' = "Exception"
                            /\ script_pc' = "crashed"
                            /\ UNCHANGED call_i
    /\ UNCHANGED <<namespace, completed, trader_stats>>
    /\ UNCHANGED simVars
    /\ UNCHANGED mainVars

\* the banner "ALL ADVANCED ANALYSES COMPLETE" and the paths; the second
\* block formats OUTPUT_DIR, which the module never binds
Banner ==
    /\ script_pc \in {"main1", "main2"}
    /\ call_i > Len(FirstBlock)
    /\ completed' = completed + 1
    /\ IF script_pc = "main1"
       THEN /\ script_pc' = "defs"
            /\ UNCHANGED script_error
       ELSE /\ script_pc' = "crashed"
            /\ script_error' = "NameError"
    /\ UNCHANGED <<namespace, call_i, script_called, trader_stats, whale>>
    /\ UNCHANGED simVars
    /\ UNCHANGED mainVars

\* the three def statements between the two blocks
Define ==
    /\ script_pc = "defs"
    /\ namespace' = namespace \cup Defined
    /\ script_pc' = "main2"
    /\ call_i' = 1
    /\ UNCHANGED <<script_called, script_error, completed, trader_stats,
                   whale>>
    /\ UNCHANGED simVars
    /\ UNCHANGED mainVars

NextAdvanced ==
    \/ Import
    \/ Call
    \/ Banner
    \/ Define

SpecAdvanced == InitAdvanced /\ [][NextAdvanced]_vars

----------------------------------------------------------------------------
(* Properties.                                                             *)

Last(s) == s[Len(s)]

InUnitInterval(f) == RLess(<<0, 1>>, f) /\ RLeq(f, <<1, 1>>)

\* the final returns of n consecutive trials at fraction f from generator g
RECURSIVE BatchFinals(_, _, _)
BatchFinals(g, f, n) ==
    IF n = 0 THEN <<>>
    ELSE <<FinalReturn(Cumprod(Choice(g, returns, n_trades_per_sim), f))>>
         \o BatchFinals(Advance(g, n_trades_per_sim), f, n - 1)

\* median, 5th and 95th percentile of a batch of final returns
RowOf(finals) ==
    <<Median(finals), Percentile(finals, 5), Percentile(finals, 95)>>

\* the i-th row the sweep has appended
SweepRowAt(i) == <<median_returns[i], p5_returns[i], p95_returns_list[i]>>

\* C1: a second invocation with the same sample, trajectory length, batch
\* size, stake fraction and seed repeats the first one's per-trial max
\* drawdowns and final returns, and ends with the same output.
DeterminismC1 ==
    run = 2 =>
        /\ Len(max_drawdowns) <= Len(prev[1].max_drawdowns)
        /\ \A i \in 1..Len(max_drawdowns) :
              /\ max_drawdowns[i] = prev[1].max_drawdowns[i]
              /\ final_returns[i] = prev[1].final_returns[i]
        /\ pc = "done" => Outcome = prev[1]

WitnessC1 ==
    /\ run = 2
    /\ pc = "done"
    /\ \E i, j \in 1..Len(final_returns) : final_returns[i] # final_returns[j]

\* the main-batch trial just run drew [-1, 1] at stake fraction 1/2
DrewLossThenGain ==
    /\ pc = "main"
    /\ fraction = <<1, 2>>
    /\ sampled = << <<-1, 1>>, <<1, 1>> >>

EquityPositivityC4 ==
    InUnitInterval(fraction) =>
        \A k \in 1..Len(equity) :
            /\ equity[k][1] >= 0
            /\ RLess(fraction, <<1, 1>>) => equity[k][1] > 0

WitnessC4 ==
    /\ fraction = <<1, 1>>
    /\ Len(equity) >= 2
    /\ equity[1][1] > 0
    /\ equity[2][1] = 0

BootstrapSupportC8 ==
    /\ Len(sampled) = Len(picked)
    /\ \A k \in 1..Len(sampled) :
          /\ picked[k] \in 1..Len(returns)
          /\ sampled[k] = returns[picked[k]]

WitnessC8 ==
    /\ pc = "sweep"
    /\ Len(sim_finals) > 0
    /\ Len(picked) >= 2
    /\ picked[1] = picked[2]
    /\ \E i \in 1..Len(returns) : returns[i] # sampled[1]

\* C9: the sweep appends one row (median, 5th and 95th percentile) per
\* fraction, in the order of the input sequence: row i is the row of the
\* trials simulated with the i-th fraction, and the export lists the rows
\* beside the fractions in that order.
SweepOrderingC9 ==
    /\ Len(median_returns) = Len(sweep_kf)
    /\ Len(p5_returns) = Len(sweep_kf)
    /\ Len(p95_returns_list) = Len(sweep_kf)
    /\ Len(sweep_kf) <= Len(kelly_fractions)
    /\ \A i \in 1..Len(sweep_kf) : sweep_kf[i] = kelly_fractions[i]
    /\ pc \in {"export", "done"} => Len(sweep_kf) = Len(kelly_fractions)
    /\ pc = "done" =>
          /\ \A i \in 1..Len(kelly_fractions) :
                SweepRowAt(i) =
                    RowOf(BatchFinals(
                        Advance(DefaultRng(SEED),
                                (i - 1) * NSweepSims * n_trades_per_sim),
                        kelly_fractions[i], NSweepSims))
          /\ chart_json[1].kelly_fractions = Pct2(kelly_fractions)
          /\ chart_json[1].kelly_median_return = Pct2(median_returns)
          /\ chart_json[1].kelly_p5_return = Pct2(p5_returns)
          /\ chart_json[1].kelly_p95_return = Pct2(p95_returns_list)

WitnessC9 ==
    /\ pc = "done"
    /\ Len(median_returns) >= 2
    /\ RLess(kelly_fractions[2], kelly_fractions[1])
    /\ median_returns[1] # median_returns[2]

\* the row a batch started from a newly seeded generator gives for the
\* i-th fraction
StandaloneRow(i) ==
    RowOf(BatchFinals(DefaultRng(SEED), kelly_fractions[i], NSweepSims))

\* C10 as stated: the row of every swept fraction f is the row
\* simulateBatch gives for f on its own with the seed, whatever fractions
\* precede f in the sweep.
SweepIndependenceC10 ==
    \A i \in 1..Len(median_returns) : SweepRowAt(i) = StandaloneRow(i)

\* C10 as amended: the sweep draws from one generator seeded once before
\* its first fraction.  The first row is the row of a batch run on its own
\* with the seed; the row of the i-th fraction is the row of the trials
\* drawn after the (i - 1) * trials * draws values the preceding fractions
\* consumed, so it depends on how many fractions precede it and not on
\* their values.
SweepContinuesC10 ==
    (pc = "export" /\ equity_curves = <<>>) =>
        /\ Len(median_returns) >= 1 => SweepRowAt(1) = StandaloneRow(1)
        /\ \A i \in 1..Len(median_returns) :
              \E g \in {Advance(DefaultRng(SEED),
                                (i - 1) * NSweepSims * n_trades_per_sim)} :
                  /\ SweepRowAt(i) =
                        RowOf(BatchFinals(g, kelly_fractions[i], NSweepSims))
                  /\ i = Len(median_returns) =>
                        rng3 = Advance(g, NSweepSims * n_trades_per_sim)

WitnessC10 ==
    /\ pc = "export"
    /\ equity_curves = <<>>
    /\ Len(median_returns) >= 2
    /\ SweepRowAt(2) # StandaloneRow(2)

NoTrialRun ==
    /\ fraction = <<0, 1>>
    /\ sampled = <<>> /\ picked = <<>> /\ equity = <<>>
    /\ running_max = <<>> /\ drawdown = <<>>
    /\ max_drawdowns = <<>> /\ final_returns = <<>>
    /\ sim_finals = <<>>

\* the invocation has produced nothing for the chart or the JSON file
NoOutput ==
    /\ summary = <<>> /\ plotted = <<>>
    /\ median_returns = <<>> /\ p5_returns = <<>> /\ p95_returns_list = <<>>
    /\ equity_curves = <<>>
    /\ chart_json = <<>>

CatchAndContinueC13 ==
    /\ [](main_pc \in {"loop", "done"} =>
            /\ called = [k \in 1..(analysis_i - 1) |-> k]
            /\ Len(results) = Len(called)
            /\ logged = SelectSeq(called, LAMBDA k : results[k] = "Exception"))
    /\ [](main_pc = "done" =>
            /\ called = [k \in 1..NAnalyses |-> k]
            /\ all_done)
    /\ [](all_done => main_pc = "done")
    /\ (data_exists ~> all_done)

WitnessC13 ==
    /\ main_pc = "done"
    /\ all_done
    /\ results[1] = "Exception"
    /\ results[NAnalyses] = "returned"
    /\ logged # <<>>
    /\ called[NAnalyses] = NAnalyses

\* every element of the sequence of reals s equals the real x
AllEqual(s, x) == \A k \in 1..Len(s) : ~IsNaN(s[k]) /\ REq(s[k], x)

\* C14: when every value of the return sample is 0, every trajectory (of
\* the main batch, the curves, the sweep and the export) is 1 at every step,
\* every max drawdown is 0 and every final return is 0, whatever the
\* generator's outputs, the stake fraction and the trajectory length.
ScaleSanityC14 ==
    (returns # <<>> /\ AllEqual(returns, <<0, 1>>)) =>
        /\ AllEqual(sampled, <<0, 1>>)
        /\ AllEqual(equity, <<1, 1>>)
        /\ AllEqual(running_max, <<1, 1>>)
        /\ AllEqual(drawdown, <<0, 1>>)
        /\ AllEqual(max_drawdowns, <<0, 1>>)
        /\ AllEqual(final_returns, <<0, 1>>)
        /\ \A c \in 1..Len(plotted) : AllEqual(plotted[c], <<1, 1>>)
        /\ \A c \in 1..Len(equity_curves) :
              AllEqual(equity_curves[c], <<1, 1>>)
        /\ AllEqual(sim_finals, <<0, 1>>)
        /\ AllEqual(median_returns, <<0, 1>>)
        /\ AllEqual(p5_returns, <<0, 1>>)
        /\ AllEqual(p95_returns_list, <<0, 1>>)

WitnessC14 ==
    /\ pc = "done"
    /\ Len(returns) > TradeCap
    /\ AllEqual(returns, <<0, 1>>)
    /\ n_trades_per_sim = TradeCap
    /\ Len(equity) = TradeCap
    /\ stake = <<3, 2>>
    /\ Len(final_returns) = n_simulations
    /\ Len(median_returns) = Len(kelly_fractions)

\* C15: within a trial of the main batch the running maximum used for the
\* drawdown is non-decreasing from step to step, and at every step it is at
\* least the equity of that step.
MonotonicRunningMaxC15 ==
    (pc = "main" /\ max_drawdowns # <<>>) =>
        /\ Len(running_max) = Len(equity)
        /\ \A k \in 1..Len(equity) : RLeq(equity[k], running_max[k])
        /\ \A k \in 1..(Len(running_max) - 1) :
              RLeq(running_max[k], running_max[k + 1])

WitnessC15 ==
    /\ pc = "main"
    /\ max_drawdowns # <<>>
    /\ Len(equity) = TradeCap
    /\ \E k \in 1..(Len(equity) - 1) :
          /\ RLess(equity[k + 1], equity[k])
          /\ RLess(equity[k + 1], running_max[k + 1])
          /\ REq(running_max[k + 1], running_max[k])

\* C16: the return sample has one value per filtered trade; every value is
\* >= -1; a lost trade contributes exactly -1 and a trade won at a price p
\* with 5 <= p <= 15 cents contributes (100 - p) / p, which is > 0.
ReturnFloorC16 ==
    pc = "main" =>
        /\ Len(returns) = Len(df)
        /\ \A n \in 1..Len(df) :
              LET p == df[n][1]
                  r == returns[n]
              IN  /\ p \in PriceLo..PriceHi
                  /\ r[2] > 0
                  /\ RLeq(<<-1, 1>>, r)
                  /\ df[n][2] = 0 => r = <<-1, 1>>
                  /\ df[n][2] = 1 =>
                        /\ r[1] * p = (PayoutCents - p) * r[2]
                        /\ RLess(<<0, 1>>, r)

WitnessC16 ==
    /\ pc = "main"
    /\ \E a, b, c \in 1..Len(df) :
          /\ df[a] = <<PriceLo, 1>>
          /\ df[b] = <<PriceHi, 1>>
          /\ df[c][2] = 0
          /\ returns[c] = <<-1, 1>>
          /\ RLess(returns[b], returns[a])

\* C17: every stake fraction used by a simulated trajectory, of the main
\* batch, of the sample curves and of every point of the sweep, is greater
\* than 0 and at most 1; so is every point of the 30-point sweep
\* np.linspace(0.01, 0.30, 30).
StakeRangeC17 ==
    /\ sampled # <<>> => InUnitInterval(fraction)
    /\ \/ pc = "main" /\ max_drawdowns # <<>>
       \/ pc = "curves" /\ plotted # <<>>
       \/ pc = "export" /\ equity_curves # <<>>
       => fraction = stake
    /\ pc = "sweep" /\ sim_finals # <<>> => fraction = kelly_fractions[kf_i]
    /\ \A n \in 1..Len(sweep_kf) : InUnitInterval(sweep_kf[n])
    /\ \A n \in 1..Len(kelly_fractions) : InUnitInterval(kelly_fractions[n])
    /\ \A n \in 1..SweepPoints : InUnitInterval(Linspace(SweepPoints)[n])

WitnessC17 ==
    /\ pc = "sweep"
    /\ kf_i = NFractions
    /\ sim_finals # <<>>
    /\ fraction = Norm(SweepHiNum, SweepDen)
    /\ Len(sweep_kf) = NFractions - 1
    /\ Len(plotted) = NCurves
    /\ Len(max_drawdowns) = n_simulations

\* C18: once the row-count check has passed, the number of draws of a
\* trajectory is the smaller of the cap (200) and the size of the return
\* sample, hence between 1 and the cap, and it is the length of every
\* trajectory of the main batch, the plotted curves, the sweep and the
\* exported curves.
TrajectoryLengthC18 ==
    pc \in {"main", "curves", "sweep", "export", "done"} =>
        /\ Len(returns) <= TradeCap => n_trades_per_sim = Len(returns)
        /\ Len(returns) > TradeCap => n_trades_per_sim = TradeCap
        /\ 1 <= n_trades_per_sim
        /\ n_trades_per_sim <= TradeCap
        /\ sampled # <<>> =>
              /\ Len(sampled) = n_trades_per_sim
              /\ Len(equity) = n_trades_per_sim
        /\ max_drawdowns # <<>> => Len(drawdown) = n_trades_per_sim
        /\ \A c \in 1..Len(plotted) : Len(plotted[c]) = n_trades_per_sim
        /\ \A c \in 1..Len(equity_curves) :
              Len(equity_curves[c]) = n_trades_per_sim

WitnessC18 ==
    /\ pc = "done"
    /\ Len(returns) > TradeCap
    /\ n_trades_per_sim = TradeCap
    /\ Len(plotted) = NCurves
    /\ Len(equity_curves) = NCurves
    /\ Len(sweep_kf) = NFractions
    /\ run = 2
    /\ prev[1].ended = "done"

\* a generator at the start of the output cycle of the seed
CycleStart == [seed |-> SEED, pos |-> 0]

\* C19: a step that retains a sample trajectory (plotted or exported)
\* leaves the per-trial max drawdowns, the final returns, the batch summary
\* and the sweep rows as they were; and the results of a finished run are
\* the ones of a run that retains no sample trajectory: the final returns
\* of the batch and the first sweep row are those of trials drawn from the
\* start of the seed's output cycle.
PresentationOnlyC19 ==
    /\ [][(\/ Len(plotted') > Len(plotted)
            \/ Len(equity_curves') > Len(equity_curves)) =>
            UNCHANGED <<max_drawdowns, final_returns, summary, sweep_kf,
                        median_returns, p5_returns, p95_returns_list>>]_vars
    /\ [](pc = "done" =>
            /\ final_returns = BatchFinals(CycleStart, stake, n_simulations)
            /\ SweepRowAt(1) =
                  RowOf(BatchFinals(CycleStart, kelly_fractions[1],
                                    NSweepSims)))

WitnessC19 ==
    /\ pc = "done"
    /\ Len(plotted) = NCurves
    /\ Len(equity_curves) = NCurves
    /\ rng2.pos # 0
    /\ rng4.pos # 0
    /\ \E a, b \in 1..Len(final_returns) : final_returns[a] # final_returns[b]
    /\ p5_returns[1] # p95_returns_list[1]

\* the fields of the record handed to the reporting layer
PayloadFields == DOMAIN chart_json[1]

BoundedWorkC21 ==
    /\ [](pc \in {"curves", "sweep", "export", "done"} =>
            /\ Len(max_drawdowns) = n_simulations
            /\ Len(final_returns) = n_simulations)
    /\ [](pc = "main" => Len(max_drawdowns) <= n_simulations)
    /\ [](pc = "sweep" => Len(sim_finals) <= NSweepSims)
    /\ [][kf_i' = kf_i + 1 => Len(sim_finals) = NSweepSims]_vars
    /\ [][sampled' # sampled =>
            \/ sampled' = <<>>
            \/ /\ Len(sampled') = n_trades_per_sim
               /\ \/ Len(max_drawdowns') = Len(max_drawdowns) + 1
                  \/ Len(plotted') = Len(plotted) + 1
                  \/ Len(sim_finals') = Len(sim_finals) + 1
                  \/ Len(equity_curves') = Len(equity_curves) + 1]_vars
    /\ [](pc \in {"export", "done"} =>
            /\ Len(median_returns) = Len(kelly_fractions)
            /\ kf_i = Len(kelly_fractions) + 1)
    /\ (pc = "start" ~> pc \in {"done", "skipped"})

WitnessC21 ==
    /\ pc = "done"
    /\ run = 2
    /\ Len(max_drawdowns) = n_simulations
    /\ Len(median_returns) = NFractions
    /\ \E a, b \in 1..n_simulations :
          /\ RLess(final_returns[a], <<0, 1>>)
          /\ RLess(<<0, 1>>, final_returns[b])
          /\ a < b

\* the exact product a * b of two reals
RMul(a, b) == Norm(a[1] * b[1], a[2] * b[2])

\* 1 + r * f for a drawn return r and a stake fraction f
Growth(r, f) == RAdd(<<1, 1>>, RMul(r, f))

\* C22: a trial that drew r_1..r_T at stake fraction f has a trajectory of
\* exactly T elements with equity_1 = 1 * (1 + r_1 * f) and equity_k =
\* equity_(k-1) * (1 + r_k * f) for k > 1, and the final return recorded for
\* it is equity_T - 1.
EquityRecurrenceC22 ==
    (pc = "main" /\ max_drawdowns # <<>>) =>
        LET T == n_trades_per_sim
        IN  /\ Len(sampled) = T
            /\ Len(equity) = T
            /\ REq(equity[1], Growth(sampled[1], fraction))
            /\ \A k \in 2..T :
                  REq(equity[k],
                      RMul(equity[k - 1], Growth(sampled[k], fraction)))
            /\ REq(Last(final_returns), RAdd(equity[T], <<-1, 1>>))

WitnessC22 ==
    /\ pc = "main"
    /\ Len(max_drawdowns) >= 2
    /\ n_trades_per_sim = TradeCap
    /\ \E j, k \in 1..Len(sampled) : sampled[j] # sampled[k]
    /\ ~REq(equity[1], equity[2])
    /\ fraction = <<3, 2>>

Declining(e) == \A k \in 1..(Len(e) - 1) : RLeq(e[k + 1], e[k])

TrialResult(e) ==
    <<ArrayMax(Drawdown(MaximumAccumulate(e), e)), FinalReturn(e)>>

\* C25: the generators of a run all start from seed 42 and every trial
\* draws n_trades_per_sim values, so the c-th plotted curve is the
\* trajectory of the c-th trial of the main batch (its max drawdown and
\* final return are the ones recorded for that trial), the c-th exported
\* curve is the c-th plotted curve rounded to 4 decimals, and the curves'
\* generators end in the same state.
SeedReplayC25 ==
    /\ pc \in {"curves", "sweep", "export", "done"} =>
          \A c \in 1..Len(plotted) :
              /\ c <= n_simulations
              /\ TrialResult(plotted[c]) =
                    <<max_drawdowns[c], final_returns[c]>>
    /\ pc \in {"export", "done"} =>
          /\ \A c \in 1..Len(equity_curves) :
                /\ Len(equity_curves[c]) = Len(plotted[c])
                /\ \A k \in 1..Len(plotted[c]) :
                      equity_curves[c][k] = Round(plotted[c][k], 4)
          /\ rng3.seed = SEED
          /\ rng4.seed = rng2.seed
          /\ Len(equity_curves) = NCurves => rng4 = rng2
    /\ pc = "done" => Len(plotted) = NCurves /\ Len(equity_curves) = NCurves

WitnessC25 ==
    /\ pc = "done"
    /\ Len(plotted) >= 2
    /\ plotted[1] # plotted[2]
    /\ final_returns[1] # final_returns[2]
    /\ equity_curves[1] # equity_curves[2]
    /\ n_trades_per_sim = TradeCap

\* C26: when the trades directory does not exist, main() invokes none of
\* the analyses and never prints the "ALL DONE" summary, and it returns.
MissingDataGuardC26 ==
    /\ [](~data_exists =>
            /\ called = <<>>
            /\ results = <<>>
            /\ logged = <<>>
            /\ ~all_done
            /\ main_pc \in {"enter", "returned"})
    /\ [](main_pc = "returned" => ~data_exists)
    /\ (~data_exists ~> main_pc = "returned")

WitnessC26 ==
    /\ ~data_exists
    /\ main_pc = "returned"
    /\ called = <<>>
    /\ ~all_done

\* s is an initial part of t
IsPrefix(s, t) == Len(s) <= Len(t) /\ \A k \in 1..Len(s) : s[k] = t[k]

\* C27: run as a script, advanced_analysis.py calls platform_comparison,
\* whale_tracker, market_categories and spread_liquidity in that order,
\* each once, and once all four have returned the script is not ended by
\* an unhandled error.
AdvancedRunnerC27 ==
    /\ IsPrefix(script_called, FirstBlock)
    /\ completed >= 1 => script_error = ""

\* C28: whenever whale_tracker has computed its pie from at least one
\* address with a positive total volume, each of the three slices is >= 0
\* and the three sum to 100.
PieSlicesC28 ==
    whale # <<>> /\ whale[1].total_traders >= 1 /\ whale[1].total_volume > 0
    => /\ \A k \in 1..3 : RLeq(<<0, 1>>, whale[1].slices[k])
       /\ REq(RSum(whale[1].slices, 3), <<100, 1>>)

\* C29: once whale_tracker has binned the addresses, every address (its
\* trade count an integer >= 1) lies in exactly one of the six bins, and the
\* six bin counts add up to total_traders.
ActivityBinsC29 ==
    whale # <<>>
    => /\ \A j \in 1..Len(trader_stats) :
              /\ TradeCount(trader_stats)[j] >= 1
              /\ Cardinality({b \in 1..NBins :
                                 InBin(b, TradeCount(trader_stats)[j])}) = 1
       /\ SumInts(whale[1].bins_counts, NBins) = whale[1].total_traders
       /\ whale[1].total_traders = Len(trader_stats)

\* addresses on both sides of the edges 10 | 11 and 100 | 101 were binned
WitnessC29 ==
    /\ whale # <<>>
    /\ {10, 11, 100, 101} \subseteq Range(TradeCount(trader_stats))
    /\ whale[1].bins_counts = <<0, 1, 2, 1, 0, 0>>

\* the last exported point of the Lorenz curve
LastPoint == <<Last(whale[1].lorenz_x), Last(whale[1].lorenz_y)>>

\* the exported index list: strictly increasing from 0 to n - 1, within
\* 0..n-1
IndexListOk(idx, n) ==
    /\ idx # <<>>
    /\ idx[1] = 0
    /\ Last(idx) = n - 1
    /\ \A k \in 1..Len(idx) : idx[k] \in 0..(n - 1)
    /\ \A k \in 1..(Len(idx) - 1) : idx[k] < idx[k + 1]

\* C30 as stated: for every n >= 1 the index list of the exported Lorenz
\* curve is strictly increasing, starts at 0, ends at n - 1 and stays within
\* 0..n-1, and the last exported point is (100, 100).
LorenzDownsamplingC30 ==
    whale # <<>>
    => /\ IndexListOk(whale[1].idx, whale[1].total_traders)
       /\ REq(LastPoint[1], <<100, 1>>)
       /\ ~IsNaN(LastPoint[2]) /\ REq(LastPoint[2], <<100, 1>>)

====
